---- MODULE Spec2Model ----
(***************************************************************************)
(* Model of src/pacman/pac.py (class Pac): the transaction manager         *)
(* (init_transaction, finalize, do_refresh, do_install), the package and   *)
(* group resolution, the event deduplicator queue_event with its bounded   *)
(* queue, and the engine callbacks cb_event and cb_progress.               *)
(*                                                                         *)
(* The engine (pyalpm) and the consumer of the queue are the environment:  *)
(* an engine call (db.update, add_pkg, prepare, commit) either returns or  *)
(* raises pyalpm.error; the consumer removes the head of the queue.        *)
(***************************************************************************)
EXTENDS Integers, Sequences, FiniteSets, TLC

\* ------------------------------------------------------------------ bounds
MaxTrans == 3      \* transactions the engine hands out in one run
MaxCalls == 4      \* queue_event calls after which no new call is started
QueueCap == 2      \* maxsize of the callback queue
NumDBs   == 2      \* sync databases the configuration may register
MaxNames == 1      \* length of the name list given to do_install
MaxIndex == 1      \* largest target index in a progress sample

VARIABLES
    pc,            \* position of the producer thread
    op,            \* the top-level method running (or last run)
    ret,           \* what the last completed method returned
    exc,           \* the exception the last method or handler raised
    exit_status,   \* status passed to sys.exit, -1 while the process lives
    ndbs,          \* number of registered sync databases
    trans,         \* every transaction the engine handed out, by id
    cur,           \* the local variable t of the running method
    dbi,           \* do_refresh: index of the database being updated
    args,          \* do_install: the arguments of the last call
    queue,         \* self.callback_queue
    consumed,      \* what the consumer has read, in order
    last_event,    \* self.last_event
    calls,         \* every queue_event call made, in order
    last_target,   \* self.last_target
    last_percent,  \* self.last_percent
    last_i,        \* self.last_i
    last_dl_filename,  \* self.last_dl_filename
    last_dl_progress,  \* self.last_dl_progress, -1 for None
    last_dl_total,     \* self.last_dl_total, -1 for None
    dl_sample,     \* cb_dl: arguments and computed progress of the last call
    res            \* what the last direct call of a resolver method returned

tvars == <<op, ret, ndbs, trans, cur, dbi, args>>
evars == <<queue, consumed, last_event, calls>>
pvars == <<last_target, last_percent, last_i>>
dvars == <<last_dl_filename, last_dl_progress, last_dl_total, dl_sample>>
vars  == <<pc, exc, exit_status, tvars, evars, pvars, dvars, res>>

\* ============================================================ name lookup
\* Names bound at module level by the import statements and the class
\* statement; a bare name not bound here or in builtins raises NameError.
ModuleGlobals ==
    {"traceback", "sys", "locale", "gettext", "math", "logging", "Queue",
     "queue", "pyalpm", "config", "Pac"}

\* Builtins, with "_" installed by the application's gettext.install().
Builtins == {"len", "dict", "getattr", "int", "_"}

NameIsBound(name) == name \in ModuleGlobals \cup Builtins

\* ============================================================ sync sources
Names == {"pkgA", "grpG", "nonexistent"}

\* handle.get_syncdbs(): the registered databases in registration order.
\* db 1 holds pkgA and the group grpG = (pkgA, pkgB); db 2 holds pkgA, pkgB
\* and the groups grpG = (pkgB) and grpH = (pkgB).  Database k > 2 is empty.
SyncDB(k) ==
    IF k = 1 THEN [name |-> 1, pkgs |-> {"pkgA"},
                   grps |-> [g \in {"grpG"} |-> <<"pkgA", "pkgB">>]]
    ELSE IF k = 2 THEN [name |-> 2, pkgs |-> {"pkgA", "pkgB"},
                   grps |-> [g \in {"grpG", "grpH"} |-> <<"pkgB">>]]
    ELSE [name |-> k, pkgs |-> {}, grps |-> [g \in {} |-> <<>>]]

get_syncdbs(n) == [k \in 1..n |-> SyncDB(k)]

\* db.get_pkg(pkgname): the package handle, or None.
None == [name |-> "None", db |-> 0]
get_pkg(db, pkgname) ==
    IF pkgname \in db.pkgs THEN [name |-> pkgname, db |-> db.name] ELSE None

\* find_sync_package(pkgname, syncdbs): first database that has the package.
RECURSIVE find_sync_package(_, _)
find_sync_package(pkgname, syncdbs) ==
    IF syncdbs = <<>> THEN [ok |-> FALSE, pkg |-> None]
    ELSE LET pkg == get_pkg(Head(syncdbs), pkgname)
         IN IF pkg # None THEN [ok |-> TRUE, pkg |-> pkg]
            ELSE find_sync_package(pkgname, Tail(syncdbs))

\* get_group_pkgs(group): members of the first database with the group.
RECURSIVE get_group_pkgs(_, _)
get_group_pkgs(group, syncdbs) ==
    IF syncdbs = <<>> THEN [found |-> FALSE, pkgs |-> <<>>]
    ELSE LET repo == Head(syncdbs)
         IN IF group \in DOMAIN repo.grps
            THEN [found |-> TRUE,
                  pkgs |-> [j \in 1..Len(repo.grps[group]) |->
                              [name |-> repo.grps[group][j], db |-> repo.name]]]
            ELSE get_group_pkgs(group, Tail(syncdbs))

RECURSIVE FilterConflicts(_, _)
FilterConflicts(group_pkgs, conflicts) ==
    IF group_pkgs = <<>> THEN <<>>
    ELSE IF Head(group_pkgs).name \notin conflicts
         THEN <<Head(group_pkgs)>> \o FilterConflicts(Tail(group_pkgs), conflicts)
         ELSE FilterConflicts(Tail(group_pkgs), conflicts)

\* The loop of do_install that accumulates the target list.
RECURSIVE install_targets(_, _, _)
install_targets(pkgs, conflicts, syncdbs) ==
    IF pkgs = <<>> THEN <<>>
    ELSE LET name == Head(pkgs)
             r    == find_sync_package(name, syncdbs)
             g    == get_group_pkgs(name, syncdbs)
             mine == IF r.ok THEN <<r.pkg>>
                     ELSE IF g.found THEN FilterConflicts(g.pkgs, conflicts)
                     ELSE <<>>
         IN mine \o install_targets(Tail(pkgs), conflicts, syncdbs)

\* ============================================================ transactions
\* A transaction as the engine sees it: its state and the calls made on it.
\* by is the method that opened it, pkgs the packages add_pkg has added.
NewTrans(by) ==
    [by |-> by, st |-> "Initialized", released |-> 0, calls |-> <<>>,
     pkgs |-> <<>>]

Call(m, ok) == [m |-> m, ok |-> ok]

t_prepare(tr, ok) ==
    [tr EXCEPT !.st = IF ok THEN "Prepared" ELSE "Failed",
               !.calls = Append(@, Call("prepare", ok))]
t_commit(tr, ok) ==
    [tr EXCEPT !.st = IF ok THEN "Committed" ELSE "Failed",
               !.calls = Append(@, Call("commit", ok))]
t_add_pkg(tr, pkg, ok) ==
    [tr EXCEPT !.st = IF ok THEN @ ELSE "Failed",
               !.calls = Append(@, Call("add_pkg", ok)),
               !.pkgs = IF ok THEN Append(@, pkg) ELSE @]
t_release(tr) ==
    [tr EXCEPT !.released = @ + 1, !.calls = Append(@, Call("release", TRUE))]

\* finalize, the except clause: release the transaction, return False.
finalize_except_noRelease(tr) == tr
finalize_except(tr) == t_release(tr)

\* finalize, after the try block: release the transaction, return True.
finalize_success(tr) == t_release(tr)

\* What the running method returns when finalize returns ok.
FinalizeReturn(ok) ==
    IF op = "install" THEN (IF ok THEN "0" ELSE "1")
    ELSE (IF ok THEN "True" ELSE "False")

IsOpen(tr) == tr.released = 0
OpenTrans == {k \in 1..Len(trans) : IsOpen(trans[k])}

\* ================================================================== events
EventTypes == {"action", "info", "target", "percent", "global_percent", "error"}

\* An event text.  k tells what kind of value it is: a string ("str"), a
\* number ("num", the fraction a/b in lowest terms), a formatted message, or
\* an error text with the caller's location appended ("located").
Str(str) == [k |-> "str", s |-> str, a |-> 0, b |-> 0]

RECURSIVE GCD(_, _)
GCD(x, y) == IF y = 0 THEN x ELSE GCD(y, x % y)

\* The float x / y (y # 0): two quotients are equal floats exactly when the
\* fractions are equal.
Num(x, y) ==
    LET g == GCD(x, y)
    IN [k |-> "num", s |-> "", a |-> x \div g, b |-> y \div g]

\* _("Progress (%d targets)") % n
ProgressText(n) == [k |-> "Progress (%d targets)", s |-> "", a |-> n, b |-> 0]

\* _("Installing %s (%d/%d)") % (target, i, n)
InstallingText(target, i, n) ==
    [k |-> "Installing %s (%d/%d)", s |-> target, a |-> i, b |-> n]

\* "%s: %s in %s:%i" % (event_text, f.co_name, f.co_filename, f.co_firstlineno)
Located(text) == [text EXCEPT !.k = "located"]

EmptyDict == [t \in {} |-> Str("")]

\* self.callback_queue.put_nowait(item): appends, or raises queue.Full.
put_nowait_front(q, item) ==
    IF Len(q) >= QueueCap THEN [q |-> q, full |-> TRUE]
    ELSE [q |-> <<item>> \o q, full |-> FALSE]
put_nowait(q, item) ==
    IF Len(q) >= QueueCap THEN [q |-> q, full |-> TRUE]
    ELSE [q |-> Append(q, item), full |-> FALSE]

\* "except queue.Full: pass"
except_Full_reraise(s) == [s EXCEPT !.raised = "queue.Full"]
except_Full(s) == s

\* "if event_type in self.last_event: if self.last_event[event_type] ==
\* event_text"
is_repeat_never(le, event_type, event_text) == FALSE
is_repeat(le, event_type, event_text) ==
    event_type \in DOMAIN le /\ le[event_type] = event_text

\* The event side of the object and of its queue, threaded through the
\* calls one handler makes.
EvState ==
    [q |-> queue, le |-> last_event, log |-> calls, cons |-> consumed,
     raised |-> "none"]

\* queue_event(event_type, event_text) up to the end of the try statement.
\* src names the caller and base is the length of the log when the caller
\* started, so that the log tells which calls one handler made.
queue_event(s, event_type, event_text, src, base) ==
    LET entry == [type |-> event_type, arg |-> event_text, text |-> event_text,
                  src |-> src, first |-> Len(s.log) = base,
                  dup |-> FALSE, full |-> FALSE, enq |-> FALSE]
    IN IF is_repeat(s.le, event_type, event_text)
       THEN [s EXCEPT !.log = Append(@, [entry EXCEPT !.dup = TRUE])]
       ELSE LET text == IF event_type = "error" THEN Located(event_text)
                        ELSE event_text
                r == put_nowait(s.q, [type |-> event_type, text |-> text])
                s1 == [s EXCEPT
                         !.le = [t \in DOMAIN s.le \cup {event_type} |->
                                   IF t = event_type THEN event_text
                                   ELSE s.le[t]],
                         !.q = r.q,
                         !.log = Append(@, [entry EXCEPT !.text = text,
                                                        !.full = r.full,
                                                        !.enq = ~r.full])]
            IN IF r.full THEN except_Full(s1) ELSE s1

\* The consumer process reads k events while a handler runs.
RECURSIVE consume(_, _)
consume(s, k) ==
    IF k = 0 \/ s.q = <<>> THEN s
    ELSE consume([s EXCEPT !.q = Tail(@), !.cons = Append(@, Head(s.q))], k - 1)

StoreEv(s) ==
    /\ queue' = s.q
    /\ last_event' = s.le
    /\ calls' = s.log
    /\ consumed' = s.cons

\* The producer thread is in code that can call a method of the object: the
\* application between two operations, or the engine inside one of its calls.
CanCall == pc \in {"idle", "update", "prepare", "commit"}

\* The types and texts the application passes to queue_event.
CalledTypes == {"action", "info", "error"}
Texts == {Str("a"), Str("b")}

\* queue_event called by the application.  For an error event that was not
\* suppressed the producer goes on to callback_queue.join().
call_queue_event(event_type, event_text) ==
    /\ pc = "idle"
    /\ Len(calls) < MaxCalls
    /\ LET s == queue_event(EvState, event_type, event_text, "direct",
                            Len(calls))
       IN /\ StoreEv(s)
          /\ exc' = s.raised
          /\ pc' = IF /\ event_type = "error"
                      /\ s.raised = "none"
                      /\ ~s.log[Len(s.log)].dup
                   THEN "join" ELSE pc
    /\ UNCHANGED <<exit_status, tvars, pvars, dvars, res>>

\* callback_queue.join() returns once every queued event has been taken,
\* then sys.exit(1).
join_exit ==
    /\ pc = "join"
    /\ queue = <<>>
    /\ pc' = "exited"
    /\ exit_status' = 1
    /\ UNCHANGED <<exc, tvars, evars, pvars, dvars, res>>

\* The consumer takes the oldest event of the queue.
consumer_get ==
    /\ queue # <<>>
    /\ StoreEv(consume(EvState, 1))
    /\ UNCHANGED <<pc, exc, exit_status, tvars, pvars, dvars, res>>

\* ================================================================ cb_event
EventIDs == {1, 9, 27, 30}

EventAction(ID) ==
    IF ID = 1 THEN "Checking dependencies..."
    ELSE IF ID = 3 THEN "Checking file conflicts..."
    ELSE IF ID = 5 THEN "Resolving dependencies..."
    ELSE IF ID = 7 THEN "Checking inter conflicts..."
    ELSE IF ID = 9 THEN ""
    ELSE IF ID = 11 THEN "Removing..."
    ELSE IF ID = 13 THEN "Upgrading..."
    ELSE IF ID = 15 THEN "Checking integrity..."
    ELSE IF ID = 17 THEN "Loading packages files..."
    ELSE IF ID = 26 THEN "Configuring..."
    ELSE IF ID = 27 THEN "Downloading a file"
    ELSE ""

cb_event(ID) ==
    /\ CanCall
    /\ Len(calls) < MaxCalls
    /\ LET action == EventAction(ID)
           s == IF action # ""
                THEN queue_event(EvState, "action", Str(action), "cb_event",
                                 Len(calls))
                ELSE EvState
       IN /\ StoreEv(s)
          /\ exc' = IF s.raised # "none" THEN s.raised ELSE exc
    /\ UNCHANGED <<pc, exit_status, tvars, pvars, dvars, res>>

\* ============================================================= cb_progress
Targets  == {"", "pkgA"}
Percents == {0, 50}

\* Target counts the engine reports: none, or one.
TargetCounts == {0, 1}

\* Abstract progress: "if percent < self.last_percent or i < self.last_i"
new_abstract_phase_percent_only(percent, i) == percent < last_percent
new_abstract_phase(percent, i) == percent < last_percent \/ i < last_i

\* Progress for some target: "if target != self.last_target or percent <
\* self.last_percent"
new_target_name_only(target, percent) == target # last_target
new_target(target, percent) ==
    target # last_target \/ percent < last_percent

\* cb_progress(target, percent, n, i); the consumer reads k1 events between
\* the first and the second queue_event call and k2 between the second and
\* the third.
cb_progress(target, percent, n, i, k1, k2) ==
    /\ CanCall
    /\ Len(calls) < MaxCalls
    /\ LET s0 == EvState
           base == Len(calls)
       IN IF target = ""
          THEN LET reset == new_abstract_phase(percent, i)
                   s1 == IF reset
                         THEN queue_event(s0, "info", ProgressText(n),
                                          "cb_progress", base)
                         ELSE s0
                   s2 == IF s1.raised # "none" THEN s1
                         ELSE queue_event(consume(s1, k1), "target",
                                  Str("Checking and loading packages..."),
                                  "cb_progress", base)
                   s3 == IF s2.raised # "none" THEN s2
                         ELSE queue_event(consume(s2, k2), "percent",
                                  Num(percent, 100), "cb_progress", base)
               IN /\ StoreEv(s3)
                  /\ exc' = IF s3.raised # "none" THEN s3.raised ELSE exc
                  /\ last_i' = IF s3.raised = "none" THEN i
                               ELSE IF reset /\ s1.raised = "none" THEN 0
                               ELSE last_i
                  /\ last_percent' = IF s3.raised = "none" THEN percent
                                     ELSE last_percent
                  /\ UNCHANGED last_target
          ELSE IF new_target(target, percent)
          THEN LET s1 == queue_event(s0, "target",
                                     InstallingText(target, i, n),
                                     "cb_progress", base)
                   s2 == IF s1.raised # "none" THEN s1
                         ELSE queue_event(consume(s1, k1), "percent",
                                  Num(percent, 100), "cb_progress", base)
                   zerodiv == s2.raised = "none" /\ n = 0
                   s3 == IF s2.raised # "none" \/ zerodiv THEN s2
                         ELSE queue_event(consume(s2, k2), "global_percent",
                                  Num(i, n), "cb_progress", base)
               IN /\ StoreEv(s3)
                  /\ exc' = IF zerodiv THEN "ZeroDivisionError"
                            ELSE IF s3.raised # "none" THEN s3.raised
                            ELSE exc
                  /\ last_target' = target
                  /\ last_percent' = IF zerodiv \/ s3.raised # "none" THEN 0
                                     ELSE percent
                  /\ UNCHANGED last_i
          ELSE /\ last_percent' = percent
               /\ UNCHANGED <<exc, evars, last_target, last_i>>
    /\ UNCHANGED <<pc, exit_status, tvars, dvars, res>>

\* ================================================================== cb_dl
MaxTotal == 2      \* largest known download size
MaxDlCalls == 3    \* queue_event calls after which no new cb_dl call is started

DlFiles == {"f", "g"}

\* Sizes the engine reports: 0 when the size is unknown.
DlTotals == 0..MaxTotal

\* Transferred byte counts tried when the size is unknown.
UnknownTx == {0, 3188, 6543}

DlTransferred(total) == IF total > 0 THEN 0..total ELSE UnknownTx

\* int(math.log(1 + tx / 1024) ** 2 / 2): the value steps up by one at each
\* of these byte counts (the first six steps).
LogSteps == <<3188, 6543, 10837, 16301, 23168, 31691>>
LogProgress(tx) == Cardinality({j \in 1..Len(LogSteps) : LogSteps[j] <= tx})

\* "Compute a progress indicator"
dl_progress_ceil(tx, total) ==
    IF total > 0 THEN (tx * 25 + total - 1) \div total ELSE LogProgress(tx)
dl_progress(tx, total) ==
    IF total > 0 THEN (tx * 25) \div total ELSE LogProgress(tx)

\* "if progress > self.last_dl_progress"
progress_increased_or_same(progress, last) == progress >= last
progress_increased(progress, last) == progress > last

\* _("Download %s: %d/%d" % (filename, tx, total))
DownloadText(filename, tx, total) ==
    [k |-> "Download %s: %d/%d", s |-> filename, a |-> tx, b |-> total]

\* cb_dl(filename, tx, total); the consumer reads k1 events between the
\* first and the second queue_event call and k2 between the second and the
\* third.
cb_dl(filename, tx, total, k1, k2) ==
    /\ CanCall
    /\ Len(calls) < MaxDlCalls
    /\ LET s0 == EvState
           base == Len(calls)
           newfile == filename # last_dl_filename \/ last_dl_total # total
           s1 == IF newfile
                 THEN queue_event(s0, "action",
                                  DownloadText(filename, tx, total),
                                  "cb_dl", base)
                 ELSE s0
           baseline == IF newfile THEN 0 ELSE last_dl_progress
           progress == dl_progress(tx, total)
           emit == s1.raised = "none" /\ progress_increased(progress, baseline)
           s2 == IF emit
                 THEN queue_event(consume(s1, k1), "action",
                                  DownloadText(filename, tx, total),
                                  "cb_dl", base)
                 ELSE s1
           s3 == IF emit /\ s2.raised = "none"
                 THEN queue_event(consume(s2, k2), "percent",
                                  Num(progress, 1), "cb_dl", base)
                 ELSE s2
       IN /\ StoreEv(s3)
          /\ exc' = IF s3.raised # "none" THEN s3.raised ELSE exc
          /\ last_dl_filename' = filename
          /\ last_dl_total' = total
          /\ last_dl_progress' = IF emit THEN progress ELSE baseline
          /\ dl_sample' = [tx |-> tx, total |-> total, progress |-> progress]
    /\ UNCHANGED <<pc, exit_status, tvars, pvars, res>>

\* ======================================================== resolver methods
MaxDictDBs == 3    \* databases in the mapping given to find_sync_package

ResolveNames == Names \cup {"pkgB", "grpH"}

\* The database names of a mapping, in the order its values are iterated.
DBDicts ==
    {d \in UNION {[1..k -> 1..MaxDictDBs] : k \in 0..MaxDictDBs} :
        \A i, j \in DOMAIN d : i # j => d[i] # d[j]}

NoResult ==
    [fn |-> "none", name |-> "", dbs |-> <<>>, ok |-> FALSE, db |-> 0,
     pkgs |-> <<>>]

\* find_sync_package(pkgname, syncdbs) called with a mapping of databases.
call_find_sync_package(pkgname, dbs) ==
    /\ pc = "idle"
    /\ LET r == find_sync_package(pkgname,
                                  [j \in 1..Len(dbs) |-> SyncDB(dbs[j])])
       IN res' = [fn |-> "find_sync_package", name |-> pkgname, dbs |-> dbs,
                  ok |-> r.ok, db |-> r.pkg.db, pkgs |-> <<>>]
    /\ exc' = "none"
    /\ UNCHANGED <<pc, exit_status, tvars, evars, pvars, dvars>>

\* get_group_pkgs(group): looks up the bare name handle for the databases.
call_get_group_pkgs(group) ==
    /\ pc = "idle"
    /\ IF ~NameIsBound("handle")
       THEN /\ exc' = "NameError"
            /\ res' = [NoResult EXCEPT !.fn = "get_group_pkgs",
                                       !.name = group]
       ELSE LET r == get_group_pkgs(group, get_syncdbs(ndbs))
            IN /\ exc' = "none"
               /\ res' = [fn |-> "get_group_pkgs", name |-> group,
                          dbs |-> [j \in 1..ndbs |-> j], ok |-> r.found,
                          db |-> IF r.found THEN r.pkgs[1].db ELSE 0,
                          pkgs |-> [j \in 1..Len(r.pkgs) |-> r.pkgs[j].name]]
    /\ UNCHANGED <<pc, exit_status, tvars, evars, pvars, dvars>>

\* init_transaction(options): the engine hands out a fresh transaction.
init_transaction(ts, by) == Append(ts, NewTrans(by))

\* do_install: "if len(pkgs) == 0".
no_targets_specified_never(pkgs) == FALSE
no_targets_specified(pkgs) == Len(pkgs) = 0

\* ================================================================== state
NameLists ==
    {<<>>} \cup UNION {[1..k -> Names] : k \in 1..MaxNames}
ConflictSets == SUBSET {"pkgA", "pkgB"}

Init ==
    /\ pc = "idle"
    /\ op = "none"
    /\ ret = "none"
    /\ exc = "none"
    /\ exit_status = -1
    /\ ndbs \in 0..NumDBs
    /\ trans = <<>>
    /\ cur = 0
    /\ dbi = 0
    /\ args = [pkgs |-> <<>>, conflicts |-> {}]
    /\ queue = <<>>
    /\ consumed = <<>>
    /\ last_event = EmptyDict
    /\ calls = <<>>
    /\ last_target = "None"
    /\ last_percent = 100
    /\ last_i = -1
    /\ last_dl_filename = "None"
    /\ last_dl_progress = -1
    /\ last_dl_total = -1
    /\ dl_sample = [tx |-> 0, total |-> 0, progress |-> 0]
    /\ res = NoResult

\* ============================================================== do_refresh
\* do_refresh up to the first db.update: returns 0 at once when no database
\* is registered, else opens a transaction and enters db.update(force).
do_refresh ==
    /\ pc = "idle"
    /\ Len(trans) + ndbs <= MaxTrans
    /\ op' = "refresh"
    /\ exc' = "none"
    /\ IF ndbs = 0
       THEN /\ ret' = "0"
            /\ UNCHANGED <<pc, trans, cur, dbi>>
       ELSE /\ ret' = "none"
            /\ trans' = init_transaction(trans, "refresh")
            /\ cur' = Len(trans) + 1
            /\ dbi' = 1
            /\ pc' = "update"
    /\ UNCHANGED <<exit_status, ndbs, args, evars, pvars, dvars, res>>

\* db.update(force) returns or raises.  When it returns, the transaction is
\* released and the loop goes on to the next database or returns 0; when it
\* raises, the exception leaves do_refresh at once.
update_return(ok) ==
    /\ pc = "update"
    /\ IF ok
       THEN LET released == [trans EXCEPT ![cur] = t_release(@)]
            IN IF dbi < ndbs
               THEN /\ trans' = init_transaction(released, "refresh")
                    /\ cur' = Len(trans) + 1
                    /\ dbi' = dbi + 1
                    /\ UNCHANGED <<pc, ret, exc>>
               ELSE /\ trans' = released
                    /\ pc' = "idle"
                    /\ ret' = "0"
                    /\ UNCHANGED <<cur, dbi, exc>>
       ELSE /\ exc' = "pyalpm.error"
            /\ pc' = "idle"
            /\ UNCHANGED <<trans, cur, dbi, ret>>
    /\ UNCHANGED <<op, exit_status, ndbs, args, evars, pvars, dvars, res>>

\* ============================================================== do_install
\* do_install up to the call of finalize.  With addOk every add_pkg call
\* returns, else the first one raises.
do_install(pkgs, conflicts, addOk) ==
    /\ pc = "idle"
    /\ Len(trans) < MaxTrans
    /\ op' = "install"
    /\ args' = [pkgs |-> pkgs, conflicts |-> conflicts]
    /\ IF no_targets_specified(pkgs)
       THEN /\ ret' = "1"
            /\ exc' = "none"
            /\ UNCHANGED <<pc, trans, cur>>
       ELSE IF ~NameIsBound("handle")
       THEN \* "handle.get_syncdbs()": the bare name handle is looked up
            /\ ret' = "none"
            /\ exc' = "NameError"
            /\ UNCHANGED <<pc, trans, cur>>
       ELSE LET targets == install_targets(pkgs, conflicts, get_syncdbs(ndbs))
            IN IF Len(targets) = 0
               THEN /\ ret' = "1"
                    /\ exc' = "none"
                    /\ UNCHANGED <<pc, trans, cur>>
               ELSE LET t == Len(trans) + 1
                        added == IF addOk THEN [k \in 1..Len(targets) |-> TRUE]
                                 ELSE <<FALSE>>
                        F[k \in 0..Len(added)] ==
                            IF k = 0 THEN NewTrans("install")
                            ELSE t_add_pkg(F[k - 1], targets[k], added[k])
                    IN /\ trans' = Append(trans, F[Len(added)])
                       /\ cur' = t
                       /\ ret' = "none"
                       /\ IF addOk
                          THEN exc' = "none" /\ pc' = "prepare"
                          ELSE exc' = "pyalpm.error" /\ pc' = "idle"
    /\ UNCHANGED <<exit_status, ndbs, dbi, evars, pvars, dvars, res>>

\* ================================================================ finalize
\* t = init_transaction(options); finalize(t), up to t.prepare().
call_finalize ==
    /\ pc = "idle"
    /\ Len(trans) < MaxTrans
    /\ op' = "finalize"
    /\ ret' = "none"
    /\ exc' = "none"
    /\ trans' = init_transaction(trans, "finalize")
    /\ cur' = Len(trans) + 1
    /\ pc' = "prepare"
    /\ UNCHANGED <<exit_status, ndbs, dbi, args, evars, pvars, dvars, res>>

\* t.prepare() returns, and finalize goes on to t.commit(), or raises, and
\* finalize runs its except clause.
prepare_return(ok) ==
    /\ pc = "prepare"
    /\ IF ok
       THEN /\ trans' = [trans EXCEPT ![cur] = t_prepare(@, TRUE)]
            /\ pc' = "commit"
            /\ UNCHANGED ret
       ELSE /\ trans' = [trans EXCEPT
                           ![cur] = finalize_except(t_prepare(@, FALSE))]
            /\ pc' = "idle"
            /\ ret' = FinalizeReturn(FALSE)
    /\ UNCHANGED <<op, exc, exit_status, ndbs, cur, dbi, args, evars, pvars, dvars, res>>

\* t.commit() returns, and finalize releases and returns True, or raises,
\* and finalize runs its except clause.
commit_return(ok) ==
    /\ pc = "commit"
    /\ IF ok
       THEN trans' = [trans EXCEPT
                        ![cur] = finalize_success(t_commit(@, TRUE))]
       ELSE trans' = [trans EXCEPT
                        ![cur] = finalize_except(t_commit(@, FALSE))]
    /\ pc' = "idle"
    /\ ret' = FinalizeReturn(ok)
    /\ UNCHANGED <<op, exc, exit_status, ndbs, cur, dbi, args, evars, pvars, dvars, res>>

\* ========================================================== specification
TransNext ==
    \/ do_refresh
    \/ \E ok \in BOOLEAN : update_return(ok)
    \/ \E pkgs \in NameLists, conflicts \in ConflictSets, addOk \in BOOLEAN :
          do_install(pkgs, conflicts, addOk)
    \/ call_finalize
    \/ \E ok \in BOOLEAN : prepare_return(ok)
    \/ \E ok \in BOOLEAN : commit_return(ok)

EventNext ==
    \/ \E event_type \in CalledTypes, event_text \in Texts :
          call_queue_event(event_type, event_text)
    \/ join_exit
    \/ consumer_get
    \/ \E ID \in EventIDs : cb_event(ID)

CallbackNext ==
    \/ consumer_get
    \/ \E ID \in EventIDs : cb_event(ID)
    \/ \E target \in Targets, percent \in Percents,
          n \in TargetCounts, i \in 0..MaxIndex, k1 \in 0..1, k2 \in 0..1 :
          cb_progress(target, percent, n, i, k1, k2)

DownloadNext ==
    \/ consumer_get
    \/ \E filename \in DlFiles, total \in DlTotals, k1 \in 0..1, k2 \in 0..1 :
          \E tx \in DlTransferred(total) : cb_dl(filename, tx, total, k1, k2)

ProgressNext ==
    \/ consumer_get
    \/ \E target \in Targets, percent \in Percents, n \in TargetCounts,
          i \in 0..MaxIndex, k1 \in 0..1, k2 \in 0..1 :
          cb_progress(target, percent, n, i, k1, k2)

ResolveNext ==
    \/ \E pkgname \in ResolveNames, dbs \in DBDicts :
          call_find_sync_package(pkgname, dbs)
    \/ \E group \in ResolveNames : call_get_group_pkgs(group)

\* The event path does not depend on the sync databases.
InitEvents == Init /\ ndbs = NumDBs

\* The transaction manager driven by the application and the engine.
Spec == Init /\ [][TransNext]_vars

\* The event path driven by the application and the consumer.
SpecEvents == InitEvents /\ [][EventNext]_vars

\* The event path driven by the engine's callbacks and the consumer.
SpecCallbacks == InitEvents /\ [][CallbackNext]_vars

\* The download callback driven by the engine, and the consumer.
SpecDownload == InitEvents /\ [][DownloadNext]_vars

\* The resolver methods called by the application.
SpecResolve == Init /\ [][ResolveNext]_vars
SpecProgress == InitEvents /\ [][ProgressNext]_vars

\* ================================================================ properties
Delivered == consumed \o queue

CallEvents ==
    [j \in 1..Len(calls) |-> [type |-> calls[j].type, text |-> calls[j].text]]

RECURSIVE IsSubseq(_, _)
IsSubseq(a, b) ==
    IF a = <<>> THEN TRUE
    ELSE IF b = <<>> THEN FALSE
    ELSE IF Head(a) = Head(b) THEN IsSubseq(Tail(a), Tail(b))
    ELSE IsSubseq(a, Tail(b))

Count(c, m) == Cardinality({j \in 1..Len(c) : c[j].m = m})

ByOperation(k) == trans[k].by \in {"refresh", "install"}

\* C1: when finalize(t) has returned, on each of its three paths (prepare
\* raised; prepare returned and commit raised; both returned), release was
\* called on t exactly once and it is the last call made on t, after every
\* prepare and commit; finalize returned True exactly when both returned.
C1_FinalizeReleasesOnce ==
    (op = "finalize" /\ pc = "idle") =>
        LET c == trans[cur].calls
        IN /\ Count(c, "release") = 1
           /\ c[Len(c)].m = "release"
           /\ \A j \in 1..(Len(c) - 1) : c[j].m \in {"prepare", "commit"}
           /\ Count(c, "prepare") = 1
           /\ (ret = "True") = (trans[cur].st = "Committed")
           /\ ret \in {"True", "False"}

\* C1 witness: finalize returned after prepare raised, the transaction
\* released.
C1_Witness ==
    /\ op = "finalize"
    /\ pc = "idle"
    /\ ret = "False"
    /\ trans[cur].calls = <<Call("prepare", FALSE), Call("release", TRUE)>>

\* C2: whenever do_refresh or do_install has stopped, by returning or by an
\* exception, every transaction it opened has been released exactly once.
C2_AlwaysReleasedOnce ==
    pc = "idle" =>
        \A k \in 1..Len(trans) : ByOperation(k) => trans[k].released = 1

\* C3: of the transactions opened by refresh and install operations at most
\* one is open at any time, and on none of them is a call made after its
\* release, nor a prepare or commit after a call on it failed.
C3_OneOpenNoReuse ==
    /\ Cardinality({k \in OpenTrans : ByOperation(k)}) <= 1
    /\ \A k \in 1..Len(trans) :
          ByOperation(k) =>
             LET c == trans[k].calls
             IN \A i, j \in 1..Len(c) :
                   i < j =>
                      /\ c[i].m # "release"
                      /\ (~c[i].ok => c[j].m \notin {"prepare", "commit"})

\* C4: the sequence of events put on the queue never holds the same
\* (type, text) pair twice in a row.
C4_NoConsecutiveDuplicates ==
    \A j \in 1..(Len(Delivered) - 1) : Delivered[j] # Delivered[j + 1]

SameCallTwice(j) ==
    /\ j + 1 <= Len(calls)
    /\ calls[j].type # "error"
    /\ calls[j].type = calls[j + 1].type
    /\ calls[j].arg = calls[j + 1].arg

Enqueued(j) == IF calls[j].enq THEN 1 ELSE 0

\* C5, as claimed: two queue_event calls in a row with the same (type, text),
\* type other than error, put exactly one event on the queue together.
C5_ExactlyOneEnqueued ==
    \A j \in 1..Len(calls) :
        SameCallTwice(j) => Enqueued(j) + Enqueued(j + 1) = 1

\* C5, amended: two queue_event calls in a row with the same (type, text),
\* type other than error, put at most one event on the queue: the second
\* call is suppressed and puts none, and the first puts one exactly when the
\* map did not already record the pair and the queue was not full.
C5_AtMostOneEnqueued ==
    \A j \in 1..Len(calls) :
        SameCallTwice(j) =>
            /\ calls[j + 1].dup
            /\ ~calls[j + 1].enq
            /\ calls[j].enq = (~calls[j].dup /\ ~calls[j].full)
            /\ Enqueued(j) + Enqueued(j + 1) <= 1

\* C5 witness: the same pair was passed twice in a row and the first call
\* put its event on the queue.
C5_Witness ==
    \E j \in 1..Len(calls) : SameCallTwice(j) /\ calls[j].enq

\* C6: every queue_event call with type error put its event on the queue,
\* the producer that made it does not run on, and it has exited only with
\* a non-zero status and an empty queue.
C6_ErrorFlushedThenExit ==
    /\ \A j \in 1..Len(calls) :
          calls[j].type = "error" =>
             /\ calls[j].enq
             /\ pc \in {"join", "exited"}
    /\ pc = "exited" => (queue = <<>> /\ exit_status > 0)

\* C7: a queue_event call with a type other than error is always possible
\* for the running producer, whatever the queue holds, and it returns
\* without raising; on a full queue it leaves the queue as it is.
C7_NonErrorNeverBlocks ==
    /\ [](pc = "idle" /\ Len(calls) < MaxCalls =>
            \A ty \in CalledTypes \ {"error"}, tx \in Texts :
                ENABLED call_queue_event(ty, tx))
    /\ [][(Len(calls') = Len(calls) + 1
              /\ calls'[Len(calls')].type # "error") =>
            /\ pc' = pc
            /\ exc' = "none"
            /\ (Len(queue) >= QueueCap => queue' = queue)]_vars

\* C7 witness: a non-error event was dropped on a full queue and the call
\* returned.
C7_Witness ==
    /\ pc = "idle"
    /\ exc = "none"
    /\ \E j \in 1..Len(calls) :
          calls[j].type # "error" /\ calls[j].full /\ ~calls[j].enq

Rank(type) ==
    IF type = "info" THEN 1
    ELSE IF type = "target" THEN 2
    ELSE IF type = "percent" THEN 3
    ELSE IF type = "global_percent" THEN 4
    ELSE 0

\* C8: the events read by the consumer followed by those still queued are
\* a subsequence of the queue_event calls in call order, and the calls of
\* one cb_progress sample come in the order info, target, percent
\* (abstract) or target, percent, global_percent (per target).
C8_DeliveredInCallOrder ==
    /\ IsSubseq(Delivered, CallEvents)
    /\ \A j \in 1..Len(calls) :
          calls[j].src = "cb_progress" =>
             IF calls[j].first
             THEN calls[j].type \in {"info", "target"}
             ELSE /\ calls[j - 1].src = "cb_progress"
                  /\ Rank(calls[j].type) = Rank(calls[j - 1].type) + 1
                  /\ calls[j].type = "global_percent" =>
                        /\ calls[j - 2].text.k = "Installing %s (%d/%d)"
                        /\ calls[j - 2].first

\* C8 witness: the consumer has read the info, target and percent events of
\* one abstract progress sample, in that order.
C8_Witness ==
    /\ Len(consumed) >= 3
    /\ consumed[1].type = "info"
    /\ consumed[2].type = "target"
    /\ consumed[3].type = "percent"
    /\ Len(calls) = 3

\* C9: do_install with an empty name list returns 1 and makes no call on
\* the engine: no transaction is opened, prepared, committed or released.
C9_EmptyInstallFails ==
    [][(pc = "idle" /\ op' = "install" /\ args'.pkgs = <<>>) =>
          /\ ret' = "1"
          /\ exc' = "none"
          /\ pc' = "idle"
          /\ trans' = trans]_vars

\* C9 witness: do_install([]) has returned 1.
C9_Witness ==
    /\ op = "install"
    /\ pc = "idle"
    /\ args.pkgs = <<>>
    /\ ret = "1"

\* C10: do_install with a non-empty name list that resolves to no target
\* (no name is a package or a group, or the groups' members are all in the
\* conflict set) returns 1 without raising.
C10_NoTargetsFails ==
    (/\ op = "install"
     /\ pc = "idle"
     /\ args.pkgs # <<>>
     /\ install_targets(args.pkgs, args.conflicts, get_syncdbs(ndbs)) = <<>>)
    => (ret = "1" /\ exc = "none")

PkgNames(seq) == {seq[j].name : j \in 1..Len(seq)}

InstallDBs == get_syncdbs(ndbs)

IsGroupOnly(name) ==
    /\ ~find_sync_package(name, InstallDBs).ok
    /\ get_group_pkgs(name, InstallDBs).found

\* The members of group name that are not named in conflicts.
WantedMembers(name, conflicts) ==
    {m \in PkgNames(get_group_pkgs(name, InstallDBs).pkgs) : m \notin conflicts}

\* C11: after do_install was called with a single name that is a group and
\* not a package, and some member is outside the conflict set, the call has
\* opened a transaction and, unless the engine refused an add_pkg, the
\* packages added to it are exactly the group's members that are not in the
\* conflict set.
C11_GroupMinusConflicts ==
    (/\ op = "install"
     /\ Len(args.pkgs) = 1
     /\ IsGroupOnly(args.pkgs[1])
     /\ WantedMembers(args.pkgs[1], args.conflicts) # {})
    => /\ exc \in {"none", "pyalpm.error"}
       /\ cur \in 1..Len(trans)
       /\ trans[cur].by = "install"
       /\ exc = "none" =>
             PkgNames(trans[cur].pkgs) =
                WantedMembers(args.pkgs[1], args.conflicts)

\* C12: when do_install has stopped for a name list that resolves to at
\* least one target, and no add_pkg was refused, it has opened one
\* transaction, added every target to it, called prepare, then commit only
\* if prepare returned, then release, and it returned 0 exactly when both
\* prepare and commit returned, else 1.
C12_InstallRunsOneTransaction ==
    (/\ op = "install"
     /\ pc = "idle"
     /\ exc # "pyalpm.error"
     /\ install_targets(args.pkgs, args.conflicts, InstallDBs) # <<>>)
    => /\ exc = "none"
       /\ ret \in {"0", "1"}
       /\ cur \in 1..Len(trans)
       /\ trans[cur].by = "install"
       /\ trans[cur].pkgs =
             install_targets(args.pkgs, args.conflicts, InstallDBs)
       /\ LET c == trans[cur].calls
              n == Len(trans[cur].pkgs)
          IN /\ Len(c) \in {n + 2, n + 3}
             /\ \A j \in 1..n : c[j].m = "add_pkg"
             /\ c[n + 1].m = "prepare"
             /\ c[Len(c)].m = "release"
             /\ Len(c) = n + 3 => (c[n + 2].m = "commit" /\ c[n + 1].ok)
             /\ Len(c) = n + 2 => ~c[n + 1].ok
             /\ (ret = "0") = (trans[cur].st = "Committed")

\* C16: whenever do_refresh has stopped it has returned 0 without raising,
\* and it has released every transaction it opened.
C16_RefreshReturnsZero ==
    (op = "refresh" /\ pc = "idle") =>
        /\ ret = "0"
        /\ exc = "none"
        /\ \A k \in 1..Len(trans) :
              trans[k].by = "refresh" => trans[k].released = 1

\* C20: after do_install was called with a name that resolves directly to
\* a package and is in the conflict set, the call has opened a transaction
\* and, unless the engine refused an add_pkg, that package is among the
\* packages added to it.
C20_DirectPackageIgnoresConflicts ==
    \A j \in 1..Len(args.pkgs) :
        (/\ op = "install"
         /\ find_sync_package(args.pkgs[j], InstallDBs).ok
         /\ args.pkgs[j] \in args.conflicts)
        => /\ exc \in {"none", "pyalpm.error"}
           /\ cur \in 1..Len(trans)
           /\ trans[cur].by = "install"
           /\ exc = "none" => args.pkgs[j] \in PkgNames(trans[cur].pkgs)

Least(S) == CHOOSE j \in S : \A k \in S : j <= k

\* C17: find_sync_package returns the package of the earliest database of
\* the mapping that has the name, and not-found only when none has it;
\* get_group_pkgs returns, without raising, the members recorded by the
\* earliest registered database that has the group, and None only when
\* none has it.
C17_FirstMatch ==
    /\ res.fn = "find_sync_package" =>
          LET has == {j \in 1..Len(res.dbs) :
                         res.name \in SyncDB(res.dbs[j]).pkgs}
          IN /\ exc = "none"
             /\ res.ok = (has # {})
             /\ has # {} => res.db = res.dbs[Least(has)]
    /\ res.fn = "get_group_pkgs" =>
          LET has == {j \in 1..ndbs : res.name \in DOMAIN SyncDB(j).grps}
          IN /\ exc = "none"
             /\ res.ok = (has # {})
             /\ has # {} => /\ res.db = Least(has)
                            /\ res.pkgs = SyncDB(Least(has)).grps[res.name]

\* C17, the half about find_sync_package alone.
C17_FindFirstMatch ==
    res.fn = "find_sync_package" =>
        LET has == {j \in 1..Len(res.dbs) :
                       res.name \in SyncDB(res.dbs[j]).pkgs}
        IN /\ res.ok = (has # {})
           /\ has # {} => res.db = res.dbs[Least(has)]

\* C14: no callback handler has raised an exception back into the engine.
C14_HandlersNeverRaise == exc = "none"

\* The queue_event calls made by the step.
NewCalls == SubSeq(calls', Len(calls) + 1, Len(calls'))

\* The sample continues a run of per-target samples with the same target,
\* index and total: the target is the tracked one and the last target text
\* passed to queue_event is the one of this target, index and total.
SameRun(target, n, i) ==
    /\ target # ""
    /\ target = last_target
    /\ "target" \in DOMAIN last_event
    /\ last_event["target"] = InstallingText(target, i, n)

NewCallTypes == [j \in 1..Len(NewCalls) |-> NewCalls[j].type]

\* C19: with an empty target cb_progress calls queue_event for info
\* "Progress (N targets)" exactly when the percent is lower than the last
\* recorded percent or the index is lower than the last recorded index, then
\* always for the generic target label and for percent / 100, and the tracked
\* index becomes the sample's index; in both modes a call that returns
\* leaves the last recorded percent equal to the sample's percent.  Each
\* implication "cb_progress(...) => P" is written "P \/ ~cb_progress(...)".
C19_AbstractProgress ==
    [][\A target \in Targets, percent \in Percents, n \in TargetCounts,
          i \in 0..MaxIndex, k1 \in 0..1, k2 \in 0..1 :
          IF target = ""
          THEN \/ /\ last_i' = i
                  /\ last_percent' = percent
                  /\ last_target' = last_target
                  /\ NewCallTypes =
                        IF percent < last_percent \/ i < last_i
                        THEN <<"info", "target", "percent">>
                        ELSE <<"target", "percent">>
                  /\ \A j \in 1..Len(NewCalls) :
                        /\ NewCalls[j].src = "cb_progress"
                        /\ NewCalls[j].arg =
                             CASE NewCalls[j].type = "info" ->
                                      ProgressText(n)
                               [] NewCalls[j].type = "target" ->
                                      Str("Checking and loading packages...")
                               [] OTHER -> Num(percent, 100)
               \/ ~cb_progress(target, percent, n, i, k1, k2)
          ELSE \/ last_percent' = percent
               \/ /\ n = 0
                  /\ exc' = "ZeroDivisionError"
                  /\ NewCallTypes = <<"target", "percent">>
               \/ ~cb_progress(target, percent, n, i, k1, k2)
      ]_vars

\* C19 witness: an abstract sample that followed another one made exactly
\* the target and percent calls, without the info call.
C19_Witness ==
    \E j \in 2..Len(calls) :
        /\ calls[j].src = "cb_progress"
        /\ calls[j].first
        /\ calls[j].type = "target"
        /\ calls[j].arg = Str("Checking and loading packages...")
        /\ calls[j - 1].src = "cb_progress"
        /\ calls[j - 1].type = "percent"
        /\ j + 1 = Len(calls)
        /\ calls[j + 1].type = "percent"

\* C15: for a known size (total > 0) the progress cb_dl computes for
\* transferred in 0..total is an integer in 0..25, it is the floor of
\* transferred * 25 / total, and from one sample to the next with the same
\* total it does not go down when transferred does not go down.
C15_DownloadProgressRange ==
    /\ [](dl_sample.total > 0 =>
            /\ dl_sample.tx \in 0..dl_sample.total
            /\ dl_sample.progress \in 0..25
            /\ dl_sample.progress * dl_sample.total <= dl_sample.tx * 25
            /\ dl_sample.tx * 25 < (dl_sample.progress + 1) * dl_sample.total)
    /\ [][(/\ dl_sample.total > 0
           /\ dl_sample'.total = dl_sample.total
           /\ dl_sample'.tx >= dl_sample.tx)
          => dl_sample'.progress >= dl_sample.progress]_vars

\* C15 witness: cb_dl computed a progress for a partly transferred file of
\* known size, where transferred * 25 / total is not an integer.
C15_Witness ==
    /\ dl_sample.total > 0
    /\ dl_sample.tx \in 1..(dl_sample.total - 1)
    /\ (dl_sample.tx * 25) % dl_sample.total # 0
    /\ dl_sample.progress \in 1..24

====
